---------------------------- MODULE Spec2Model ----------------------------
(***************************************************************************)
(* PPDAE: the VAE training loop (src/src/vae_training.py) and the dataset  *)
(* wrapper (src/src/dataset.py).                                           *)
(*                                                                         *)
(* Numbers.  Losses, beta and min_delta are real numbers in the program;   *)
(* here they are integers counting hundredths (1.0 is 100, 0.95 is 95,     *)
(* 0.2 is 20).  The KL term of a batch is a whole number, so that          *)
(* loss = mse + beta * kld stays a whole number of hundredths.  A          *)
(* probability or a uniform draw counts steps of 1/DrawSteps.              *)
(* An optional value (Python's None or a value) is the empty sequence or a *)
(* one-element sequence.                                                   *)
(***************************************************************************)
EXTENDS Integers, Sequences, FiniteSets, TLC

VARIABLES
    \* ---- Trainer: constructor parameters and the arguments of train() ----
    epochs,          \* train(epochs=...)
    save,            \* train(save=...)
    early_stop,      \* train(early_stop=...)
    sch,             \* self.sch: "None", "ReduceLROnPlateau" or "StepLR"
    beta,            \* self.beta: [mode |-> "step" | "const", value |-> hundredths]
    print_every,     \* self.print_every
    train_loader,    \* len(train_loader): number of training batches
    test_loader,     \* len(test_loader): number of test batches
    \* ---- Trainer: run state ----
    train_loss,      \* self.train_loss: [Loss, MSE, KLD |-> sequence]
    test_loss,       \* self.test_loss
    num_steps,       \* self.num_steps
    pc,              \* position of train(): loop, train, test, sched, es, save, done, crashed
    epoch,           \* the loop variable of train(); 0 before the first epoch
    i,               \* the batch index of the running enumerate()
    loss,            \* the local `loss` of _test_epoch (optional)
    val_loss,        \* the local `val_loss` of train() (optional)
    early_stopping,  \* the EarlyStopping object
    \* ---- the outside world, as the trainer drives it ----
    wb_log,          \* the step keys of the wb.log calls made so far, in order
    sch_args,        \* the arguments of the self.sch.step calls made so far
    observed,        \* the values handed to the early-stopping rule so far
    saved,           \* number of torch.save calls made
    events,          \* what happened in the current epoch, in order
    test_passes,     \* number of _test_epoch calls completed
    \* ---- a direct call of Trainer._beta_scheduler ----
    beta_epoch,      \* the epoch argument
    beta_ret,        \* the returned value (optional)
    \* ---- ProtoPlanetaryDisks.get_dataloader ----
    dataset_size,    \* len(self)
    test_split,      \* the fraction, [num, den]
    shuffle,         \* the shuffle flag
    split_ret,       \* optional [train_indices, test_indices, test_loader_none]
    \* ---- ProtoPlanetaryDisks.__getitem__ ----
    imgs,            \* self.imgs: sequence of images
    meta,            \* self.meta: sequence of parameter rows
    imgs0,           \* self.imgs as loaded
    meta0,           \* self.meta as loaded
    transform,       \* self.transform
    ret,             \* the last returned sample (optional)
    writes,          \* number of in-place writes the caller has made
    meta_written,    \* the caller has written into a returned parameter row
    \* ---- a direct call of MyFlipVerticalTransform ----
    flip_prob,       \* self.prob, in steps of 1/DrawSteps
    flip_x,          \* the argument
    flip_ret         \* optional [u, out]: the draw and the returned array

trainerCfg == <<epochs, save, early_stop, sch, beta, print_every, train_loader, test_loader>>
trainerRun == <<train_loss, test_loss, num_steps, pc, epoch, i, loss, val_loss,
                early_stopping, wb_log, sch_args, observed, saved, events, test_passes>>
trainerVars == <<trainerCfg, trainerRun>>
betaVars == <<beta_epoch, beta_ret>>
splitVars == <<dataset_size, test_split, shuffle, split_ret>>
dataVars == <<imgs, meta, imgs0, meta0, transform, ret, writes, meta_written>>
flipVars == <<flip_prob, flip_x, flip_ret>>
vars == <<trainerVars, betaVars, splitVars, dataVars, flipVars>>

(***************************************************************************)
(* Bounds of the model.                                                    *)
(***************************************************************************)
MaxEpochs == 2
MaxTrainBatches == 2
MaxTestBatches == 2

None == <<>>
Some(v) == <<v>>
Last(s) == s[Len(s)]

(***************************************************************************)
(* Trainer.__init__ defaults and the constants of train().                 *)
(***************************************************************************)
PrintEvery == 50
BetaStep == 15
BetaGamma == 20
BetaZero == 0
Patience == 10
MinDelta == 10

\* a schedule that rounds epoch / step up instead of down
beta_scheduler_ceil(self_beta, ep, beta0, step, gamma) ==
    IF self_beta.mode = "step"
    THEN beta0 + gamma * ((ep + step - 1) \div step)
    ELSE self_beta.value

(***************************************************************************)
(* Trainer._beta_scheduler: epoch // step is floor division.               *)
(***************************************************************************)
beta_scheduler(self_beta, ep, beta0, step, gamma) ==
    IF self_beta.mode = "step"
    THEN beta0 + gamma * (ep \div step)
    ELSE self_beta.value

(***************************************************************************)
(* Trainer._loss.  The forward pass is opaque: a batch yields some         *)
(* reconstruction error mse and some KL sum kld.  LossValue is the         *)
(* returned loss; LossAppend is the bookkeeping, which appends to the      *)
(* train record when train=True and to the test record otherwise.          *)
(***************************************************************************)
LossValue(self_beta, mse, kld, ep) ==
    mse + beta_scheduler(self_beta, ep, BetaZero, BetaStep, BetaGamma) * kld

AppendRecord(rec, mse, kld, l) ==
    [Loss |-> Append(rec.Loss, l), MSE |-> Append(rec.MSE, mse), KLD |-> Append(rec.KLD, kld)]

\* bookkeeping that ignores the train flag
LossAppendTrainAlways(tr, te, mse, kld, l, train) ==
    AppendRecord(tr, mse, kld, l)

LossAppendTrain(tr, te, mse, kld, l, train) ==
    IF train THEN AppendRecord(tr, mse, kld, l) ELSE tr

LossAppendTest(tr, te, mse, kld, l, train) ==
    IF train THEN te ELSE AppendRecord(te, mse, kld, l)


(***************************************************************************)
(* The outputs of the forward pass on a batch.                             *)
(***************************************************************************)
TrainOutputs == {[mse |-> 90, kld |-> 1]}
TestOutputs == {[mse |-> 100, kld |-> 0], [mse |-> 80, kld |-> 1]}

(***************************************************************************)
(* EarlyStopping (src.training_callbacks): its construction and its call.  *)
(* The first observation finds no best yet and records itself.  The flag   *)
(* is set when the counter reaches patience and nothing clears it.         *)
(***************************************************************************)
EarlyStoppingInit(patience, min_delta) ==
    [patience |-> patience, min_delta |-> min_delta, best |-> None, counter |-> 0,
     early_stop |-> FALSE]

Improves(es, current) ==
    es.best = None \/ es.best[1] - current > es.min_delta

\* a rule that takes a gain of exactly min_delta for an improvement
EarlyStoppingCallLoose(es, current) ==
    IF es.best = None \/ es.best[1] - current >= es.min_delta
    THEN [es EXCEPT !.best = Some(current), !.counter = 0]
    ELSE [es EXCEPT !.counter = es.counter + 1,
                    !.early_stop = es.early_stop \/ (es.counter + 1 >= es.patience)]

EarlyStoppingCall(es, current) ==
    IF Improves(es, current)
    THEN [es EXCEPT !.best = Some(current), !.counter = 0]
    ELSE [es EXCEPT !.counter = es.counter + 1,
                    !.early_stop = es.early_stop \/ (es.counter + 1 >= es.patience)]

(***************************************************************************)
(* Pieces of the trainer that the actions below are built from.            *)
(***************************************************************************)
\* self.num_steps += 1 (line 61)
StepIncr(n) == n + 1

\* _report_train(i): wb.log(..., step=self.num_steps) when i % print_every == 0
ReportTrain(log, idx, every, n) ==
    IF idx % every = 0 THEN Append(log, n) ELSE log

\* a test report keyed by the epoch
ReportTestStepEpoch(n, ep) == ep

\* the step key of _report_test's wb.log (line 187)
ReportTestStep(n, ep) == n

\* a loop that keeps the loss of its first batch
TestLoopLossFirst(prev, l) == IF prev = None THEN Some(l) ELSE prev

\* the local `loss` of _test_epoch after one more batch (line 100)
TestLoopLoss(prev, l) == Some(l)

\* a loop without the break
AfterEarlyStopNoBreak(enabled, flag) == "loop"

\* train(): `if early_stop: ...; if early_stopping.early_stop: break`
AfterEarlyStop(enabled, flag) ==
    IF enabled /\ flag THEN "save" ELSE "loop"

\* a save that ignores the flag
SaveCallsAlways(save_flag, n) == n + 1

\* train(): `if save: torch.save(...)`
SaveCalls(save_flag, n) ==
    IF save_flag THEN n + 1 ELSE n

\* train(): the argument of self.sch.step
SchStepArg(kind, v, ep) ==
    IF kind = "ReduceLROnPlateau" THEN [val_loss |-> v] ELSE [epoch |-> ep]

(***************************************************************************)
(* Trainer.train, one action per step of the loop.                         *)
(***************************************************************************)
\* `for epoch in range(1, epochs + 1)`: the next epoch starts, or the loop is exhausted
LoopHead ==
    /\ pc = "loop"
    /\ IF epoch < epochs
       THEN /\ epoch' = epoch + 1
            /\ pc' = "train"
            /\ i' = 0
            /\ events' = <<>>
       ELSE /\ pc' = "save"
            /\ UNCHANGED <<epoch, i, events>>
    /\ UNCHANGED <<train_loss, test_loss, num_steps, loss, val_loss, early_stopping,
                   wb_log, sch_args, observed, saved, test_passes>>
    /\ UNCHANGED <<trainerCfg, betaVars, splitVars, dataVars, flipVars>>

\* one iteration of the loop of _train_epoch
TrainBatch ==
    /\ pc = "train"
    /\ i < train_loader
    /\ \E o \in TrainOutputs :
         LET l == LossValue(beta, o.mse, o.kld, epoch)
             n == StepIncr(num_steps)
         IN  /\ num_steps' = n
             /\ train_loss' = LossAppendTrain(train_loss, test_loss, o.mse, o.kld, l, TRUE)
             /\ test_loss' = LossAppendTest(train_loss, test_loss, o.mse, o.kld, l, TRUE)
             /\ wb_log' = ReportTrain(wb_log, i, print_every, n)
    /\ i' = i + 1
    /\ events' = Append(events, "train")
    /\ UNCHANGED <<pc, epoch, loss, val_loss, early_stopping, sch_args, observed, saved,
                   test_passes>>
    /\ UNCHANGED <<trainerCfg, betaVars, splitVars, dataVars, flipVars>>

\* the end of _train_epoch: np.concatenate raises on an empty list; else two wb.log calls
TrainEpochEnd ==
    /\ pc = "train"
    /\ i = train_loader
    /\ IF train_loader = 0
       THEN /\ pc' = "crashed"
            /\ UNCHANGED <<wb_log, i, loss>>
       ELSE /\ wb_log' = Append(Append(wb_log, num_steps), num_steps)
            /\ pc' = "test"
            /\ i' = 0
            /\ loss' = None
    /\ UNCHANGED <<train_loss, test_loss, num_steps, epoch, val_loss, early_stopping,
                   sch_args, observed, saved, events, test_passes>>
    /\ UNCHANGED <<trainerCfg, betaVars, splitVars, dataVars, flipVars>>

\* one iteration of the loop of _test_epoch
TestBatch ==
    /\ pc = "test"
    /\ i < test_loader
    /\ \E o \in TestOutputs :
         LET l == LossValue(beta, o.mse, o.kld, epoch)
         IN  /\ train_loss' = LossAppendTrain(train_loss, test_loss, o.mse, o.kld, l, FALSE)
             /\ test_loss' = LossAppendTest(train_loss, test_loss, o.mse, o.kld, l, FALSE)
             /\ loss' = TestLoopLoss(loss, l)
    /\ i' = i + 1
    /\ events' = Append(events, "test")
    /\ UNCHANGED <<num_steps, pc, epoch, val_loss, early_stopping, wb_log, sch_args,
                   observed, saved, test_passes>>
    /\ UNCHANGED <<trainerCfg, betaVars, splitVars, dataVars, flipVars>>

\* the end of _test_epoch: _report_test reads test_loss['Loss'][-1] (IndexError when
\* empty), Test_Recon is logged on even epochs, and `loss` is returned
TestEpochEnd ==
    /\ pc = "test"
    /\ i = test_loader
    /\ IF Len(test_loss.Loss) = 0 \/ loss = None
       THEN /\ pc' = "crashed"
            /\ UNCHANGED <<wb_log, val_loss, test_passes>>
       ELSE /\ wb_log' = LET reported == Append(wb_log, ReportTestStep(num_steps, epoch))
                         IN  IF epoch % 2 = 0 THEN Append(reported, num_steps) ELSE reported
            /\ val_loss' = loss
            /\ test_passes' = test_passes + 1
            /\ pc' = "sched"
    /\ UNCHANGED <<train_loss, test_loss, num_steps, epoch, i, loss, early_stopping,
                   sch_args, observed, saved, events>>
    /\ UNCHANGED <<trainerCfg, betaVars, splitVars, dataVars, flipVars>>

\* `if self.sch is not None`: the LR is logged and the scheduler stepped
SchedStep ==
    /\ pc = "sched"
    /\ IF sch # "None"
       THEN /\ wb_log' = Append(wb_log, num_steps)
            /\ sch_args' = Append(sch_args, SchStepArg(sch, val_loss[1], epoch))
            /\ events' = Append(events, "sched")
       ELSE UNCHANGED <<wb_log, sch_args, events>>
    /\ pc' = "es"
    /\ UNCHANGED <<train_loss, test_loss, num_steps, epoch, i, loss, val_loss,
                   early_stopping, observed, saved, test_passes>>
    /\ UNCHANGED <<trainerCfg, betaVars, splitVars, dataVars, flipVars>>

\* `if early_stop: early_stopping(val_loss.cpu()); if early_stopping.early_stop: break`
EarlyStop ==
    /\ pc = "es"
    /\ IF early_stop
       THEN LET es == EarlyStoppingCall(early_stopping[1], val_loss[1])
            IN  /\ early_stopping' = Some(es)
                /\ observed' = Append(observed, val_loss[1])
                /\ events' = Append(events, "es")
                /\ pc' = AfterEarlyStop(early_stop, es.early_stop)
       ELSE /\ pc' = AfterEarlyStop(early_stop, FALSE)
            /\ UNCHANGED <<early_stopping, observed, events>>
    /\ UNCHANGED <<train_loss, test_loss, num_steps, epoch, i, loss, val_loss, wb_log,
                   sch_args, saved, test_passes>>
    /\ UNCHANGED <<trainerCfg, betaVars, splitVars, dataVars, flipVars>>

\* after the loop: `if save: torch.save(...)`, and train() returns
Save ==
    /\ pc = "save"
    /\ saved' = SaveCalls(save, saved)
    /\ pc' = "done"
    /\ UNCHANGED <<train_loss, test_loss, num_steps, epoch, i, loss, val_loss,
                   early_stopping, wb_log, sch_args, observed, events, test_passes>>
    /\ UNCHANGED <<trainerCfg, betaVars, splitVars, dataVars, flipVars>>

TrainerNext ==
    \/ LoopHead
    \/ TrainBatch
    \/ TrainEpochEnd
    \/ TestBatch
    \/ TestEpochEnd
    \/ SchedStep
    \/ EarlyStop
    \/ Save

(***************************************************************************)
(* The parts of the state a specification does not use stay as they are    *)
(* here.                                                                   *)
(***************************************************************************)
BetaIdle == beta_epoch = 0 /\ beta_ret = None

SplitIdle ==
    /\ dataset_size = 0
    /\ test_split = [num |-> 0, den |-> 1]
    /\ shuffle = FALSE
    /\ split_ret = None

DataIdle ==
    /\ imgs = <<>> /\ meta = <<>> /\ imgs0 = <<>> /\ meta0 = <<>>
    /\ transform = FALSE /\ ret = None /\ writes = 0 /\ meta_written = FALSE

FlipIdle == flip_prob = 0 /\ flip_x = <<>> /\ flip_ret = None

EmptyRecord == [Loss |-> <<>>, MSE |-> <<>>, KLD |-> <<>>]

\* Trainer.__init__, and train() up to its loop
TrainerStart ==
    /\ train_loss = EmptyRecord
    /\ test_loss = EmptyRecord
    /\ num_steps = 0
    /\ pc = "loop"
    /\ epoch = 0
    /\ i = 0
    /\ loss = None
    /\ val_loss = None
    /\ early_stopping = IF early_stop THEN Some(EarlyStoppingInit(Patience, MinDelta)) ELSE None
    /\ wb_log = <<>>
    /\ sch_args = <<>>
    /\ observed = <<>>
    /\ saved = 0
    /\ events = <<>>
    /\ test_passes = 0

TrainerIdle ==
    /\ epochs = 0 /\ save = FALSE /\ early_stop = FALSE /\ sch = "None"
    /\ beta = [mode |-> "step", value |-> 0]
    /\ print_every = PrintEvery
    /\ train_loader = 0 /\ test_loader = 0
    /\ TrainerStart
    /\ pc = "loop"

SchKinds == {"None", "ReduceLROnPlateau", "StepLR"}
BetaModes == {[mode |-> "step", value |-> 0], [mode |-> "const", value |-> 100]}

(***************************************************************************)
(* Spec: short training runs over every configuration.                     *)
(***************************************************************************)
Init ==
    /\ epochs \in 0..MaxEpochs
    /\ save \in BOOLEAN
    /\ early_stop \in BOOLEAN
    /\ sch \in SchKinds
    /\ beta \in BetaModes
    /\ print_every \in {1, PrintEvery}
    /\ train_loader \in 0..MaxTrainBatches
    /\ test_loader \in 0..MaxTestBatches
    /\ TrainerStart
    /\ BetaIdle /\ SplitIdle /\ DataIdle /\ FlipIdle

Next == TrainerNext

Spec == Init /\ [][Next]_vars

(***************************************************************************)
(* SpecLong: runs long enough for the early-stopping rule of train()       *)
(* (patience 10) to fire, with at most one batch per loader.               *)
(***************************************************************************)
MaxLongEpochs == 12

InitLong ==
    /\ epochs \in 0..MaxLongEpochs
    /\ save \in BOOLEAN
    /\ early_stop \in BOOLEAN
    /\ sch = "ReduceLROnPlateau"
    /\ beta = [mode |-> "step", value |-> 0]
    /\ print_every = PrintEvery
    /\ train_loader \in 0..1
    /\ test_loader \in 0..1
    /\ TrainerStart
    /\ BetaIdle /\ SplitIdle /\ DataIdle /\ FlipIdle

SpecLong == InitLong /\ [][TrainerNext]_vars

(***************************************************************************)
(* SpecES: the early-stopping rule alone, fed arbitrary loss sequences.    *)
(***************************************************************************)
MaxPatience == 3
MaxObs == 4
MinDeltas == {0, 10}
LossVals == {40, 60, 80, 95, 100}

InitES ==
    /\ epochs = 0 /\ save = FALSE /\ early_stop = TRUE /\ sch = "None"
    /\ beta = [mode |-> "step", value |-> 0]
    /\ print_every = PrintEvery
    /\ train_loader = 0 /\ test_loader = 0
    /\ train_loss = EmptyRecord /\ test_loss = EmptyRecord
    /\ num_steps = 0 /\ pc = "rule" /\ epoch = 0 /\ i = 0
    /\ loss = None /\ val_loss = None
    /\ \E p \in 1..MaxPatience, d \in MinDeltas :
         early_stopping = Some(EarlyStoppingInit(p, d))
    /\ wb_log = <<>> /\ sch_args = <<>> /\ observed = <<>>
    /\ saved = 0 /\ events = <<>> /\ test_passes = 0
    /\ BetaIdle /\ SplitIdle /\ DataIdle /\ FlipIdle

\* early_stopping(v)
Observe ==
    /\ pc = "rule"
    /\ Len(observed) < MaxObs
    /\ \E v \in LossVals :
         /\ early_stopping' = Some(EarlyStoppingCall(early_stopping[1], v))
         /\ observed' = Append(observed, v)
    /\ UNCHANGED <<train_loss, test_loss, num_steps, pc, epoch, i, loss, val_loss, wb_log,
                   sch_args, saved, events, test_passes>>
    /\ UNCHANGED <<trainerCfg, betaVars, splitVars, dataVars, flipVars>>

SpecES == InitES /\ [][Observe]_vars

IsPrefix(s, t) == Len(s) <= Len(t) /\ \A k \in 1..Len(s) : s[k] = t[k]

\* what one observation does to the rule's state
C1_Step ==
    observed' # observed =>
        LET es == early_stopping[1]
            es2 == early_stopping'[1]
            current == observed'[Len(observed')]
            first == Len(observed) = 0
        IN  /\ IF first \/ es.best[1] - current > es.min_delta
               THEN es2.best = Some(current) /\ es2.counter = 0
               ELSE es2.best = es.best /\ es2.counter = es.counter + 1
            /\ es2.early_stop = (es.early_stop \/ es2.counter = es.patience)
            /\ es2.patience = es.patience /\ es2.min_delta = es.min_delta

C1_Examples ==
    LET es == early_stopping[1]
    IN  /\ ~es.early_stop => es.counter < es.patience
        /\ (es.patience = 3 /\ es.min_delta = 10) =>
             /\ observed = <<100, 95, 95, 95>> => es.early_stop
             /\ (IsPrefix(observed, <<100, 95, 95>>) => ~es.early_stop)
             /\ (IsPrefix(observed, <<100, 80, 60, 40>>) => ~es.early_stop)

\* C1: the early-stopping rule. Starting in 'monitoring', the first observation is
\* recorded as best; after it an observation with best - current > min_delta becomes the
\* new best and resets the counter, every other observation increments the counter; the
\* rule is stopped from the first observation at which the counter reaches patience.
\* With patience 3 and min_delta 0.1, [1.0, 0.95, 0.95, 0.95] stops at the 4th value and
\* not earlier, and [1.0, 0.8, 0.6, 0.4] never stops.
C1_EarlyStoppingRule == [][C1_Step]_vars /\ []C1_Examples

\* the rule has just stopped on [1.0, 0.95, 0.95, 0.95]
C1_Witness ==
    /\ pc = "rule"
    /\ observed = <<100, 95, 95, 95>>
    /\ early_stopping[1].patience = 3 /\ early_stopping[1].min_delta = 10
    /\ early_stopping[1].early_stop /\ early_stopping[1].counter = 3

(***************************************************************************)
(* Claims about Trainer.train.                                             *)
(***************************************************************************)
Stopped == early_stopping # None /\ early_stopping[1].early_stop

C2_Step ==
    /\ Stopped =>
         /\ Stopped'
         /\ pc' \in {"save", "done"}
         /\ UNCHANGED <<epoch, train_loss, test_loss, num_steps, observed, test_passes>>
    /\ ~early_stop => early_stopping' = None

C2_Done ==
    (pc = "done" /\ ~Stopped) => (epoch = epochs /\ test_passes = epochs)

\* C2: 'stopped' is terminal for the run. Once the early-stopping rule has set its flag in
\* train(), no later epoch trains or tests, the rule observes no further loss and the flag
\* stays set; a run whose rule never stops (early_stop=False in particular) and that
\* returns has run all epochs 1..epochs.
C2_StoppedIsTerminal == [][C2_Step]_vars /\ []C2_Done

\* train() has returned before its last epoch because the rule stopped it
C2_Witness ==
    /\ pc = "done" /\ early_stop /\ Stopped
    /\ epoch = Patience + 1 /\ epoch < epochs
    /\ Len(observed) = epoch

LensEqual(rec) == Len(rec.Loss) = Len(rec.MSE) /\ Len(rec.MSE) = Len(rec.KLD)

AppendOnly(rec, rec2) ==
    /\ IsPrefix(rec.Loss, rec2.Loss)
    /\ IsPrefix(rec.MSE, rec2.MSE)
    /\ IsPrefix(rec.KLD, rec2.KLD)

\* the test batches evaluated so far: whole passes, and the batches of a running pass
TestBatchesDone ==
    test_passes * test_loader + (IF pc = "test" THEN i ELSE 0)

\* C6 as stated: the train sequences have the length num_steps and the test sequences
\* have one entry per completed evaluation pass, however many test batches a pass has.
C6_OnePerPass ==
    /\ LensEqual(train_loss) /\ Len(train_loss.Loss) = num_steps
    /\ LensEqual(test_loss)
    /\ pc \in {"loop", "train", "sched", "es", "save", "done"} =>
         Len(test_loss.Loss) = test_passes

C6_Lengths ==
    /\ LensEqual(train_loss) /\ Len(train_loss.Loss) = num_steps
    /\ LensEqual(test_loss)
    /\ pc # "crashed" => Len(test_loss.Loss) = TestBatchesDone

C6_Step == AppendOnly(train_loss, train_loss') /\ AppendOnly(test_loss, test_loss')

\* C6 (amended): the three train sequences have equal length, the number of optimization
\* steps taken; the three test sequences have equal length, the number of test batches
\* evaluated (one entry per test batch, so len(test_loader) entries per evaluation pass);
\* no entry is ever removed or overwritten.
C6_LossRecords == []C6_Lengths /\ [][C6_Step]_vars

\* two evaluation passes of two batches each have left four test entries
C6_Witness ==
    /\ pc = "done" /\ test_loader = 2 /\ train_loader = 2 /\ epochs = 2
    /\ test_passes = 2 /\ Len(test_loss.Loss) = 4 /\ Len(train_loss.KLD) = 4
    /\ num_steps = 4

NonDecreasing(s) == \A a, b \in 1..Len(s) : a <= b => s[a] <= s[b]

C7_Keys ==
    /\ NonDecreasing(wb_log)
    /\ \A k \in 1..Len(wb_log) : wb_log[k] <= num_steps
    /\ (epoch = 0 /\ pc = "loop") => num_steps = 0

C7_Step ==
    /\ num_steps' \in {num_steps, num_steps + 1}
    /\ num_steps' = num_steps + 1 <=> (pc = "train" /\ pc' = "train" /\ i' = i + 1)
    /\ IsPrefix(wb_log, wb_log')
    /\ \A k \in (Len(wb_log) + 1)..Len(wb_log') : wb_log'[k] = num_steps'

\* C7: every wb.log call is keyed by self.num_steps as it is at the call; the counter
\* starts at 0, grows by exactly 1 per training batch and by nothing else, is never reset,
\* and the step keys of successive wb.log calls never decrease.
C7_StepKeys == []C7_Keys /\ [][C7_Step]_vars

\* the second epoch's test report is logged after four training steps
C7_Witness ==
    /\ pc = "sched" /\ epoch = 2 /\ train_loader = 2 /\ num_steps = 4
    /\ Len(wb_log) >= 6 /\ wb_log[1] = 1 /\ wb_log[Len(wb_log)] = 4

\* C9: the model file is written once, after the loop has ended (by exhausting the
\* epochs or by early stopping), when save=True, and never when save=False; nothing is
\* written before or between epochs.
C9_SavedOnceAtEnd ==
    /\ pc # "done" => saved = 0
    /\ pc = "done" => saved = (IF save THEN 1 ELSE 0)

\* an early-stopped run has written its model file
C9_Witness ==
    /\ pc = "done" /\ save /\ saved = 1 /\ Stopped /\ epoch < epochs

Count(s, tag) == Cardinality({k \in 1..Len(s) : s[k] = tag})

Rank(tag) ==
    CASE tag = "train" -> 1
      [] tag = "test" -> 2
      [] tag = "sched" -> 3
      [] tag = "es" -> 4

C10_Order ==
    /\ \A a, b \in 1..Len(events) : a <= b => Rank(events[a]) <= Rank(events[b])
    /\ Count(events, "test") > 0 => Count(events, "train") = train_loader
    /\ Count(events, "sched") > 0 =>
         /\ Count(events, "sched") = 1
         /\ Count(events, "train") = train_loader
         /\ Count(events, "test") = test_loader
         /\ sch # "None"
    /\ Count(events, "es") > 0 =>
         /\ Count(events, "es") = 1
         /\ Count(events, "train") = train_loader
         /\ Count(events, "test") = test_loader
         /\ sch # "None" => Count(events, "sched") = 1
         /\ early_stop

C10_Values ==
    /\ pc \in {"sched", "es"} => val_loss = Some(Last(test_loss.Loss))
    /\ (Count(events, "sched") > 0 /\ sch = "ReduceLROnPlateau") =>
         Last(sch_args) = [val_loss |-> Last(test_loss.Loss)]
    /\ (Count(events, "sched") > 0 /\ sch # "ReduceLROnPlateau") =>
         Last(sch_args) = [epoch |-> epoch]
    /\ Count(events, "es") > 0 => Last(observed) = Last(test_loss.Loss)

\* C10: within an epoch all training batches come first, then all test batches, then the
\* scheduler step (if a scheduler is set), then the early-stopping observation (if
\* enabled); the value handed to ReduceLROnPlateau.step and to the early-stopping rule is
\* the loss of the epoch's last test batch, the final entry of test_loss['Loss'].
C10_EpochOrder == C10_Order /\ C10_Values

\* an epoch of two test batches with different losses, after the scheduler and the rule
\* have both been handed the second one
C10_Witness ==
    /\ test_loader = 2 /\ train_loader = 2 /\ sch = "ReduceLROnPlateau" /\ early_stop
    /\ events = <<"train", "train", "test", "test", "sched", "es">>
    /\ Len(test_loss.Loss) = 2
    /\ test_loss.Loss[1] < test_loss.Loss[2]
    /\ Last(observed) = test_loss.Loss[2]
    /\ Last(sch_args).val_loss = test_loss.Loss[2]

(***************************************************************************)
(* SpecBeta: Trainer._beta_scheduler called on a fresh trainer.            *)
(***************************************************************************)
MaxBetaEpoch == 31

BetaModesAll ==
    BetaModes \cup {[mode |-> "const", value |-> 0], [mode |-> "const", value |-> 50]}

InitBeta ==
    /\ epochs = 0 /\ save = FALSE /\ early_stop = FALSE /\ sch = "None"
    /\ beta \in BetaModesAll
    /\ print_every = PrintEvery
    /\ train_loader = 0 /\ test_loader = 0
    /\ TrainerStart
    /\ BetaIdle /\ SplitIdle /\ DataIdle /\ FlipIdle

\* self._beta_scheduler(ep), with the default beta0, step and gamma
BetaCall ==
    /\ \E ep \in 0..MaxBetaEpoch :
         /\ beta_epoch' = ep
         /\ beta_ret' = Some(beta_scheduler(beta, ep, BetaZero, BetaStep, BetaGamma))
    /\ UNCHANGED <<trainerVars, splitVars, dataVars, flipVars>>

SpecBeta == InitBeta /\ [][BetaCall]_vars

C3_Value ==
    beta_ret # None =>
        /\ beta.mode = "step" =>
             /\ \E q \in 0..beta_epoch :
                  /\ q * 15 <= beta_epoch /\ beta_epoch < (q + 1) * 15
                  /\ beta_ret[1] = 0 + 20 * q
             /\ beta_epoch \in {0, 14} => beta_ret[1] = 0
             /\ beta_epoch \in {15, 29} => beta_ret[1] = 20
             /\ beta_epoch = 30 => beta_ret[1] = 40
        /\ beta.mode # "step" => beta_ret[1] = beta.value

C3_Frame == UNCHANGED <<train_loss, test_loss, num_steps, beta>>

\* C3: in 'step' mode _beta_scheduler(epoch), with step=15, gamma=0.2, beta0=0, returns
\* beta0 + gamma * floor(epoch / step) (0.0 at epochs 0 and 14, 0.2 at 15 and 29, 0.4 at
\* 30); in any other mode it returns the constant self.beta whatever the epoch; the call
\* leaves the loss histories, num_steps and the beta mode unchanged.
C3_BetaSchedule == []C3_Value /\ [][C3_Frame]_vars

\* the schedule has just returned 0.4 for epoch 30
C3_Witness ==
    beta.mode = "step" /\ beta_epoch = 30 /\ beta_ret = Some(40)

(***************************************************************************)
(* SpecSplit: ProtoPlanetaryDisks.get_dataloader.                          *)
(***************************************************************************)
MaxDatasetSize == 4

Fractions ==
    {[num |-> 0, den |-> 1], [num |-> 1, den |-> 5], [num |-> 1, den |-> 2],
     [num |-> 3, den |-> 4], [num |-> 9, den |-> 10]}

\* list(range(dataset_size))
Range(n) == [k \in 1..n |-> k - 1]

\* the orders np.random.shuffle can leave a list in
Shuffles(s) ==
    {[k \in 1..Len(s) |-> s[p[k]]] :
        p \in {q \in [1..Len(s) -> 1..Len(s)] : \A a, b \in 1..Len(s) : q[a] = q[b] => a = b}}

\* int(np.floor(test_split * dataset_size))
SplitPoint(f, n) == (f.num * n) \div f.den

\* a train subset that is not sliced
TrainIndicesAll(indices, split) == indices

\* indices[split:]
TrainIndices(indices, split) == SubSeq(indices, split + 1, Len(indices))

\* indices[:split]
TestIndices(indices, split) == SubSeq(indices, 1, split)

InitSplit ==
    /\ dataset_size \in 1..MaxDatasetSize
    /\ test_split \in Fractions
    /\ shuffle \in BOOLEAN
    /\ split_ret = None
    /\ TrainerIdle /\ BetaIdle /\ DataIdle /\ FlipIdle

\* get_dataloader(shuffle=shuffle, test_split=test_split): the indices each loader draws
GetDataloader ==
    /\ split_ret = None
    /\ IF test_split.num = 0
       THEN \E order \in (IF shuffle THEN Shuffles(Range(dataset_size))
                                     ELSE {Range(dataset_size)}) :
              split_ret' = Some([train_indices |-> order, test_indices |-> <<>>,
                                 test_loader_none |-> TRUE])
       ELSE LET split == SplitPoint(test_split, dataset_size)
            IN  \E indices \in (IF shuffle THEN Shuffles(Range(dataset_size))
                                           ELSE {Range(dataset_size)}) :
                  split_ret' = Some([train_indices |-> TrainIndices(indices, split),
                                     test_indices |-> TestIndices(indices, split),
                                     test_loader_none |-> FALSE])
    /\ UNCHANGED <<dataset_size, test_split, shuffle>>
    /\ UNCHANGED <<trainerVars, betaVars, dataVars, flipVars>>

SpecSplit == InitSplit /\ [][GetDataloader]_vars

Elems(s) == {s[k] : k \in 1..Len(s)}

\* C4: for every dataset size N, fraction 0 <= f < 1 and shuffle flag, the train and test
\* index sets are disjoint, their union is {0..N-1}, |test| = floor(f*N) and
\* |train| = N - |test|; when f = 0 the test set is empty, there is no test loader and
\* all N indices go to train.
C4_IndexSplit ==
    split_ret # None =>
        LET r == split_ret[1]
            train == Elems(r.train_indices)
            test == Elems(r.test_indices)
        IN  /\ train \cap test = {}
            /\ train \cup test = 0..(dataset_size - 1)
            /\ Cardinality(test) = Len(r.test_indices)
            /\ Cardinality(train) = Len(r.train_indices)
            /\ Cardinality(test) * test_split.den <= test_split.num * dataset_size
            /\ test_split.num * dataset_size < (Cardinality(test) + 1) * test_split.den
            /\ Cardinality(train) = dataset_size - Cardinality(test)
            /\ test_split.num = 0 <=> r.test_loader_none
            /\ test_split.num = 0 => (test = {} /\ Cardinality(train) = dataset_size)

\* four samples shuffled and split in half
C4_Witness ==
    /\ split_ret # None /\ shuffle /\ dataset_size = 4
    /\ test_split = [num |-> 1, den |-> 2]
    /\ split_ret[1].test_indices = <<3, 0>>
    /\ Elems(split_ret[1].train_indices) = {1, 2}

(***************************************************************************)
(* Arrays.  An image is a function on Pos.  An array object is a record    *)
(* [base, img]: base is 0 when the array owns fresh storage and k > 0 when *)
(* it is a view of the storage of self.imgs[k].                            *)
(***************************************************************************)
ImgDim == 2
DrawSteps == 4

Pos == (1..ImgDim) \X (1..ImgDim)

\* np.flip(x, -2)
FlipRows(m) == [p \in Pos |-> m[<<ImgDim + 1 - p[1], p[2]>>]]

\* np.flip(x, -1)
FlipCols(m) == [p \in Pos |-> m[<<p[1], ImgDim + 1 - p[2]>>]]

\* np.transpose over the last two axes
Transpose(m) == [p \in Pos |-> m[<<p[2], p[1]>>]]

\* np.rot90(x, k, axes=[-2, -1]), built from flips and transposes as numpy does
Rot90(m, k) ==
    CASE k = 0 -> m
      [] k = 1 -> Transpose(FlipCols(m))
      [] k = 2 -> FlipRows(FlipCols(m))
      [] k = 3 -> FlipCols(Transpose(m))

\* a rotation without the trailing .copy(): np.rot90 returns a view of its argument
MyRotationTransformView(x, k) == [base |-> x.base, img |-> Rot90(x.img, k)]

\* MyRotationTransform.__call__, k being the draw of np.random.choice([0, 1, 2, 3])
MyRotationTransform(x, k) == [base |-> 0, img |-> Rot90(x.img, k)]

\* MyFlipVerticalTransform.__call__, u being the draw of np.random.uniform()
MyFlipVerticalTransform(prob, x, u) ==
    IF u >= prob THEN [base |-> 0, img |-> FlipRows(x.img)] ELSE x

\* MyFlipVerticalTransform(): the default prob=.5
DefaultProb == DrawSteps \div 2

\* self.transform_fx: Compose([MyRotationTransform(), MyFlipVerticalTransform()])
transform_fx(x, k, u) ==
    MyFlipVerticalTransform(DefaultProb, MyRotationTransform(x, k), u)

(***************************************************************************)
(* SpecFlip: MyFlipVerticalTransform(prob) called on an array.             *)
(***************************************************************************)
Images == [Pos -> {0, 1}]

InitFlip ==
    /\ flip_prob \in 0..DrawSteps
    /\ flip_x \in {[base |-> 1, img |-> m] : m \in Images}
    /\ flip_ret = None
    /\ TrainerIdle /\ BetaIdle /\ SplitIdle /\ DataIdle

FlipCall ==
    /\ \E u \in 0..(DrawSteps - 1) :
         flip_ret' = Some([u |-> u, out |-> MyFlipVerticalTransform(flip_prob, flip_x, u)])
    /\ UNCHANGED <<flip_prob, flip_x>>
    /\ UNCHANGED <<trainerVars, betaVars, splitVars, dataVars>>

SpecFlip == InitFlip /\ [][FlipCall]_vars

\* C5: for every image and every draw u in [0,1), MyFlipVerticalTransform with prob=1.0
\* returns the vertically flipped image and with prob=0.0 returns the image unflipped.
C5_FlipBoundary ==
    flip_ret # None =>
        /\ flip_prob = DrawSteps =>
             flip_ret[1].out.img = [p \in Pos |-> flip_x.img[<<ImgDim + 1 - p[1], p[2]>>]]
        /\ flip_prob = 0 => flip_ret[1].out.img = flip_x.img

(***************************************************************************)
(* SpecData: ProtoPlanetaryDisks.__getitem__ and a caller that writes into *)
(* what it was handed.                                                     *)
(***************************************************************************)
DataLen == 2
MaxWrites == 1

\* the stored images: image k holds 10*k + 1, 10*k + 2, ... row by row, so that no two
\* pixels of the dataset are equal and every rotation and flip shows
StoredImage(k) == [p \in Pos |-> 10 * k + (p[1] - 1) * ImgDim + p[2]]

\* the value a caller writes: no stored pixel and no parameter has it
Scribble == 99

InitData ==
    /\ imgs = [k \in 1..DataLen |-> StoredImage(k)]
    /\ meta = [k \in 1..DataLen |-> 10 * k]
    /\ imgs0 = imgs
    /\ meta0 = meta
    /\ transform \in BOOLEAN
    /\ ret = None
    /\ writes = 0
    /\ meta_written = FALSE
    /\ TrainerIdle /\ BetaIdle /\ SplitIdle /\ FlipIdle

\* dataset[index]: self.imgs[index] and self.meta[index] are views of the stored arrays
GetItem ==
    /\ \E index \in 1..DataLen, k \in 0..3, u \in 0..(DrawSteps - 1) :
         LET view == [base |-> index, img |-> imgs[index]]
         IN  ret' = Some([index |-> index, k |-> k, u |-> u, fresh |-> TRUE,
                          imgs |-> IF transform THEN transform_fx(view, k, u) ELSE view,
                          meta |-> meta[index]])
    /\ UNCHANGED <<imgs, meta, imgs0, meta0, transform, writes, meta_written>>
    /\ UNCHANGED <<trainerVars, betaVars, splitVars, flipVars>>

\* the caller writes a pixel of the returned image in place
CallerWritesImage ==
    /\ ret # None
    /\ writes < MaxWrites
    /\ \E p \in Pos :
         LET r == ret[1]
         IN  /\ ret' = Some([r EXCEPT !.imgs.img[p] = Scribble, !.fresh = FALSE])
             /\ imgs' = IF r.imgs.base = 0 THEN imgs
                        ELSE [imgs EXCEPT ![r.imgs.base][p] = Scribble]
    /\ writes' = writes + 1
    /\ UNCHANGED <<meta, imgs0, meta0, transform, meta_written>>
    /\ UNCHANGED <<trainerVars, betaVars, splitVars, flipVars>>

\* the caller writes the returned parameter row in place: it is a view of self.meta
CallerWritesMeta ==
    /\ ret # None
    /\ ~meta_written
    /\ ret' = Some([ret[1] EXCEPT !.meta = Scribble])
    /\ meta' = [meta EXCEPT ![ret[1].index] = Scribble]
    /\ meta_written' = TRUE
    /\ UNCHANGED <<imgs, imgs0, meta0, transform, writes>>
    /\ UNCHANGED <<trainerVars, betaVars, splitVars, flipVars>>

SpecData == InitData /\ [][GetItem \/ CallerWritesImage \/ CallerWritesMeta]_vars

\* pixel (r, c) of an image turned counterclockwise k quarter turns
Turned(m, k) ==
    [p \in Pos |->
        CASE k = 0 -> m[p]
          [] k = 1 -> m[<<p[2], ImgDim + 1 - p[1]>>]
          [] k = 2 -> m[<<ImgDim + 1 - p[1], ImgDim + 1 - p[2]>>]
          [] k = 3 -> m[<<ImgDim + 1 - p[2], p[1]>>]]

UpsideDown(m) == [p \in Pos |-> m[<<ImgDim + 1 - p[1], p[2]>>]]

\* C8: with transform=True, for every index and every outcome of the rotation and flip
\* draws, __getitem__ returns the stored image rotated first and then (if the draw says
\* so) flipped, in an array that shares no storage with self.imgs; self.imgs stays as
\* loaded through any accesses and any in-place writes to returned images, and self.meta
\* stays as loaded as long as no caller writes into a returned parameter row.
C8_AugmentationFrame ==
    transform =>
        /\ imgs = imgs0
        /\ ~meta_written => meta = meta0
        /\ ret # None =>
             LET r == ret[1]
                 turned == Turned(imgs0[r.index], r.k)
             IN  /\ r.imgs.base = 0
                 /\ r.fresh => r.imgs.img \in {turned, UpsideDown(turned)}
                 /\ (r.fresh /\ r.u >= DefaultProb) => r.imgs.img = UpsideDown(turned)
                 /\ (r.fresh /\ r.u < DefaultProb) => r.imgs.img = turned

\* a quarter-turned, flipped copy of the first image that its caller has scribbled on,
\* the stored image untouched
C8_Witness ==
    /\ transform /\ ret # None /\ writes = MaxWrites
    /\ ret[1].k = 1 /\ ret[1].u >= DefaultProb /\ ~ret[1].fresh
    /\ ret[1].index = 1
    /\ ret[1].imgs.img[<<1, 1>>] = Scribble
    /\ imgs = imgs0

=============================================================================
